---- MODULE Spec2Model ----
(***************************************************************************)
(* Model of yolo/convert_yolo11_to_coreml.py: a command-line utility that  *)
(* parses six options, loads YOLO11 weights through the ultralytics        *)
(* library and exports them to CoreML.                                     *)
(*                                                                         *)
(* Text is a sequence of one-character strings, so that concatenation,     *)
(* splitting at "/" and suffix stripping are computed and not assumed.     *)
(* pathlib is modelled as PurePosixPath of CPython 3.11 (the utility       *)
(* targets CoreML hosts, which are POSIX).  The ultralytics library is     *)
(* the environment: whether it imports, whether YOLO(...) and export(...)  *)
(* return or raise, and which descriptor export returns, are its choices.  *)
(***************************************************************************)
EXTENDS Integers, Sequences, FiniteSets, TLC

\* Longest option value (weights / output text) enumerated exhaustively.
MaxLen == 2
\* Largest number of options given on one command line.
MaxArgs == 3

\* ------------------------------------------------------------------ text

Alphabet == {"a", ".", "/"}

Strs(n) == UNION {[1..k -> Alphabet] : k \in 0..n}

Str_foo_mlpackage == <<"f", "o", "o", ".", "m", "l", "p", "a", "c", "k", "a", "g", "e">>

\* Longer values of interest: a suffix, two suffixes, a directory part, and
\* the package name "foo.mlpackage".
ExampleNames ==
  { <<"a", ".", "a">>,
    <<"a", ".", "a", ".", "a">>,
    <<"a", "/", "a", ".", "a">>,
    Str_foo_mlpackage }

PathValues == Strs(MaxLen) \cup ExampleNames

Range(s) == {s[i] : i \in 1..Len(s)}

\* str.find and str.rfind, 1-based, 0 when absent (Python: -1).
Find(s, c) ==
  IF c \in Range(s) THEN CHOOSE i \in 1..Len(s) : s[i] = c /\ \A j \in 1..(i-1) : s[j] # c
  ELSE 0

RFind(s, c) ==
  IF c \in Range(s) THEN CHOOSE i \in 1..Len(s) : s[i] = c /\ \A j \in (i+1)..Len(s) : s[j] # c
  ELSE 0

\* str.split("/")
RECURSIVE Split(_)
Split(s) ==
  LET i == Find(s, "/")
  IN  IF i = 0 THEN <<s>>
      ELSE <<SubSeq(s, 1, i - 1)>> \o Split(SubSeq(s, i + 1, Len(s)))

\* str.lstrip("/")
RECURSIVE LStrip(_)
LStrip(s) == IF s # <<>> /\ Head(s) = "/" THEN LStrip(Tail(s)) ELSE s

\* ------------------------------------------------------------- pathlib

\* _PosixFlavour.splitroot: exactly two leading slashes are kept as "//".
SplitRoot(part) ==
  LET stripped == LStrip(part)
      n == Len(part) - Len(stripped)
  IN  [root |-> IF n = 0 THEN <<>> ELSE IF n = 2 THEN <<"/", "/">> ELSE <<"/">>,
       rel  |-> stripped]

\* pathlib.Path(s): _Flavour.parse_parts drops empty and "." components.
\* The path is its root and the names after it.
Path(s) ==
  LET sr == SplitRoot(s)
  IN  [root  |-> sr.root,
       names |-> SelectSeq(Split(sr.rel), LAMBDA x : x # <<>> /\ x # <<".">>)]

\* PurePath.name: the final component, "" when there is none.
Name(p) == IF p.names = <<>> THEN <<>> ELSE p.names[Len(p.names)]

\* Variant: the suffix taken from the first dot (all suffixes at once).
SuffixFromFirstDot(p) ==
  LET name == IF p.names = <<>> THEN <<>> ELSE p.names[Len(p.names)]
      i == Find(name, ".")
  IN  IF 1 < i /\ i < Len(name) THEN SubSeq(name, i, Len(name)) ELSE <<>>

\* PurePath.suffix: from the last dot, unless it is the first or last character.
Suffix(p) ==
  LET name == Name(p)
      i == RFind(name, ".")
  IN  IF 1 < i /\ i < Len(name) THEN SubSeq(name, i, Len(name)) ELSE <<>>

\* with_suffix raises ValueError("... has an empty name").
HasEmptyName(p) == Name(p) = <<>>

\* PurePath.with_suffix(""), for a path with a name.
\* Variant: the suffix is left in place.
WithSuffixKeepsSuffix(p) == p

WithSuffix(p) ==
  LET name == Name(p)
      old_suffix == Suffix(p)
      new == IF old_suffix = <<>> THEN name
             ELSE SubSeq(name, 1, Len(name) - Len(old_suffix))
  IN  [p EXCEPT !.names = SubSeq(p.names, 1, Len(p.names) - 1) \o <<new>>]

\* ------------------------------------------------------------ argparse

Str_yolo11 == <<"y", "o", "l", "o", "1", "1">>
Str_pt == <<".", "p", "t">>
Str_mlpackage == <<".", "m", "l", "p", "a", "c", "k", "a", "g", "e">>

\* add_argument("--size", choices=[...])
SizeChoices == {<<"n">>, <<"s">>, <<"m">>, <<"l">>, <<"x">>}

Digits == {"0", "1", "2", "3", "4", "5", "6", "7", "8", "9"}

DigitVal(c) ==
  CASE c = "0" -> 0 [] c = "1" -> 1 [] c = "2" -> 2 [] c = "3" -> 3 [] c = "4" -> 4
    [] c = "5" -> 5 [] c = "6" -> 6 [] c = "7" -> 7 [] c = "8" -> 8 [] c = "9" -> 9

\* int(token) of add_argument("--imgsz", type=int): an optional sign and digits.
Unsigned(tok) == IF tok # <<>> /\ Head(tok) \in {"-", "+"} THEN Tail(tok) ELSE tok

IsInt(tok) == Unsigned(tok) # <<>> /\ Range(Unsigned(tok)) \subseteq Digits

RECURSIVE NatOf(_)
NatOf(ds) == IF ds = <<>> THEN 0 ELSE 10 * NatOf(SubSeq(ds, 1, Len(ds) - 1)) + DigitVal(ds[Len(ds)])

IntOf(tok) == IF Head(tok) = "-" THEN 0 - NatOf(Unsigned(tok)) ELSE NatOf(Unsigned(tok))

\* An option of the command line: given with a value, or omitted.
Omitted == [given |-> FALSE, val |-> <<>>]
Given(v) == [given |-> TRUE, val |-> v]
Opt(values) == {Omitted} \cup {Given(v) : v \in values}

SizeTokens == SizeChoices \cup {<<"q">>}
ImgszTokens == {<<"3", "2", "0">>, <<"0">>, <<"-", "1">>, <<"x">>}

NumGiven(av) ==
  Cardinality({f \in {"size", "weights", "imgsz", "output"} : av[f].given})
    + (IF av.half # "" THEN 1 ELSE 0) + (IF av.nms # "" THEN 1 ELSE 0)

\* The command lines enumerated: at most MaxArgs options each.
CommandLines ==
  {av \in [size : Opt(SizeTokens), weights : Opt(PathValues), imgsz : Opt(ImgszTokens),
           half : {"", "--half", "--no-half"}, nms : {"", "--nms", "--no-nms"},
           output : Opt(PathValues)] : NumGiven(av) <= MaxArgs}

\* parser.error(...): an invalid choice of --size or a non-integer --imgsz.
UsageError(av) ==
  \/ av.size.given /\ av.size.val \notin SizeChoices
  \/ av.imgsz.given /\ ~IsInt(av.imgsz.val)

DefaultImgsz == 640

\* parse_args(): the namespace, each omitted option at its default.
parse_args(av) ==
  [size    |-> IF av.size.given THEN av.size.val ELSE <<"l">>,
   weights |-> IF av.weights.given THEN av.weights.val ELSE <<>>,
   imgsz   |-> IF av.imgsz.given THEN IntOf(av.imgsz.val) ELSE DefaultImgsz,
   half    |-> IF av.half = "" THEN TRUE ELSE av.half = "--half",
   nms     |-> IF av.nms = "" THEN TRUE ELSE av.nms = "--nms",
   output  |-> IF av.output.given THEN av.output.val ELSE <<>>]

NoArgs == [size |-> <<>>, weights |-> <<>>, imgsz |-> 0, half |-> FALSE, nms |-> FALSE,
           output |-> <<>>]

\* ---------------------------------------------------------------- main

\* Variant: the explicit weights are ignored.
ResolveWeightsIgnoresExplicit(a) == Str_yolo11 \o a.size \o Str_pt

\* Variant: the output option leaks into the weights identifier.
ResolveWeightsFromOutput(a) ==
  IF a.output # <<>> THEN a.output
  ELSE IF a.weights # <<>> THEN a.weights ELSE Str_yolo11 \o a.size \o Str_pt

\* weights_path = args.weights or f"yolo11{args.size}.pt"
ResolveWeights(a) ==
  IF a.weights # <<>> THEN a.weights ELSE Str_yolo11 \o a.size \o Str_pt

\* The path whose suffix-less name becomes output_name.
OutputSource(a, w) == IF a.output # <<>> THEN Path(a.output) ELSE Path(w)

\* pathlib.Path(...).with_suffix("").name
OutputName(a, w) == Name(WithSuffix(OutputSource(a, w)))

NoOpts == [format |-> "", nms |-> FALSE, imgsz |-> 0, half |-> FALSE]

\* Variant: the two boolean flags are passed crosswise.
ExportOptionsSwapped(a) ==
  [format |-> "coreml", nms |-> a.half, imgsz |-> a.imgsz, half |-> a.nms]

\* The keyword arguments of model.export(...).
ExportOptions(a) == [format |-> "coreml", nms |-> a.nms, imgsz |-> a.imgsz, half |-> a.half]

\* What the run does to the outside, in order.
Event(kind, msg, str, opts) == [kind |-> kind, msg |-> msg, str |-> str, opts |-> opts]
EvImport == Event("import", "ultralytics", <<>>, NoOpts)
EvLoad(w) == Event("YOLO", "", w, NoOpts)
EvExport(o) == Event("export", "", <<>>, o)
EvOut(msg, str) == Event("stdout", msg, str, NoOpts)
EvErr(msg) == Event("stderr", msg, <<>>, NoOpts)

MsgUsage == "usage: error"
MsgNotInstalled == "Ultralytics not installed in this environment. Activate venv and install ultralytics."
MsgTraceback == "Traceback (most recent call last)"
MsgLoading == "Loading YOLO11 weights: "
MsgExporting == "Exporting to CoreML (.mlpackage) as: "
MsgComplete == "Export complete."
MsgResult == "export_result"

\* Descriptors the export call may return (opaque to the utility).
Descriptors == {<<"a">>, <<"a", "a">>}

VARIABLES
  runs,          \* the process invocations of this behaviour
  argv,          \* argv[r]: the command line of invocation r
  pc,            \* pc[r]: the statement of main() invocation r is at
  args,          \* args[r]: the parsed namespace
  weights_path,  \* weights_path[r]
  output_name,   \* output_name[r]
  export_result, \* export_result[r]
  trace,         \* trace[r]: the events of invocation r so far
  raised,        \* raised[r]: the exception that ended the invocation, "" if none
  exit_status,   \* exit_status[r]: the process status once pc[r] = "exited"
  env            \* what the environment has answered so far

vars == <<runs, argv, pc, args, weights_path, output_name, export_result, trace, raised,
          exit_status, env>>

\* The environment answers a question the first time it is asked and gives
\* the same answer afterwards: the library does not appear or vanish, and
\* the same weights load the same way, between two invocations.
Answers(known, choices) == IF known = "unknown" THEN choices ELSE {known}

\* Invocations run one after the other.
Turn(r) == \A q \in runs : q < r => pc[q] = "exited"

Exit(r, exc, status) ==
  /\ pc' = [pc EXCEPT ![r] = "exited"]
  /\ raised' = [raised EXCEPT ![r] = exc]
  /\ exit_status' = [exit_status EXCEPT ![r] = status]

Emit(r, events) == trace' = [trace EXCEPT ![r] = @ \o events]

Goto(r, label) ==
  /\ pc' = [pc EXCEPT ![r] = label]
  /\ UNCHANGED <<raised, exit_status>>

\* line 30: args = parse_args()
ParseArgs(r) ==
  /\ pc[r] = "parse_args" /\ Turn(r)
  /\ IF UsageError(argv[r])
     THEN /\ Emit(r, <<EvErr(MsgUsage)>>)
          /\ Exit(r, "SystemExit", 2)
          /\ UNCHANGED args
     ELSE /\ args' = [args EXCEPT ![r] = parse_args(argv[r])]
          /\ Goto(r, "import")
          /\ UNCHANGED trace
  /\ UNCHANGED <<runs, argv, weights_path, output_name, export_result, env>>

\* Variant: the import failure is reported and then swallowed.
ImportSwallowed(r) ==
  /\ Emit(r, <<EvImport, EvErr(MsgNotInstalled)>>)
  /\ Goto(r, "load")

\* lines 34-36: the import raised; report and re-raise.
ImportRaises(r) ==
  /\ Emit(r, <<EvImport, EvErr(MsgNotInstalled), EvErr(MsgTraceback)>>)
  /\ Exit(r, "ImportError", 1)

\* Variant: the output name is determined right after the import.
ImportThenName(r) ==
  /\ Emit(r, <<EvImport>>)
  /\ Goto(r, "output_name")

ImportReturns(r) ==
  /\ Emit(r, <<EvImport>>)
  /\ Goto(r, "load")

\* lines 32-36: from ultralytics import YOLO
ImportLibrary(r) ==
  /\ pc[r] = "import" /\ Turn(r)
  /\ \E ans \in Answers(env.lib, {"installed", "missing"}) :
       /\ env' = [env EXCEPT !.lib = ans]
       /\ IF ans = "installed" THEN ImportReturns(r) ELSE ImportRaises(r)
  /\ UNCHANGED <<runs, argv, args, weights_path, output_name, export_result>>

\* Variant: the exception is caught and the run goes on to report.
UncaughtSwallowed(r, events, exc) ==
  /\ Emit(r, events)
  /\ Goto(r, "report")

\* An exception nobody catches: the interpreter prints it and exits with 1.
Uncaught(r, events, exc) ==
  /\ Emit(r, events \o <<EvErr(MsgTraceback)>>)
  /\ Exit(r, exc, 1)

\* lines 38-41: resolve the weights, announce them, model = YOLO(weights_path)
LoadModel(r) ==
  /\ pc[r] = "load" /\ Turn(r)
  /\ LET w == ResolveWeights(args[r])
         called == <<EvOut(MsgLoading, w), EvLoad(w)>>
     IN  /\ weights_path' = [weights_path EXCEPT ![r] = w]
         /\ \E ans \in Answers(env.load, {"returns", "raises"}) :
              /\ env' = [env EXCEPT !.load = ans]
              /\ IF ans = "returns"
                 THEN Emit(r, called) /\ Goto(r, "output_name")
                 ELSE Uncaught(r, called, "LoadError")
  /\ UNCHANGED <<runs, argv, args, output_name, export_result>>

\* lines 43-52: determine output_name and announce the export
DetermineOutputName(r) ==
  /\ pc[r] = "output_name" /\ Turn(r)
  /\ IF HasEmptyName(OutputSource(args[r], weights_path[r]))
     THEN /\ Uncaught(r, <<>>, "ValueError")
          /\ UNCHANGED output_name
     ELSE LET name == OutputName(args[r], weights_path[r])
          IN  /\ output_name' = [output_name EXCEPT ![r] = name]
              /\ Emit(r, <<Event("stdout", MsgExporting, name \o Str_mlpackage,
                                 [ExportOptions(args[r]) EXCEPT !.format = ""])>>)
              /\ Goto(r, "export")
  /\ UNCHANGED <<runs, argv, args, weights_path, export_result, env>>

\* lines 54-60: export_result = model.export(format="coreml", ...)
Export(r) ==
  /\ pc[r] = "export" /\ Turn(r)
  /\ LET called == <<EvExport(ExportOptions(args[r]))>>
     IN  \E ans \in Answers(env.export, {"returns", "raises"}) :
           IF ans = "returns"
           THEN \E d \in (IF env.export = "unknown" THEN Descriptors ELSE {env.descriptor}) :
                  /\ env' = [env EXCEPT !.export = ans, !.descriptor = d]
                  /\ export_result' = [export_result EXCEPT ![r] = d]
                  /\ Emit(r, called)
                  /\ Goto(r, "report")
           ELSE /\ env' = [env EXCEPT !.export = ans]
                /\ Uncaught(r, called, "ExportError")
                /\ UNCHANGED export_result
  /\ UNCHANGED <<runs, argv, args, weights_path, output_name>>

\* Variant: the descriptor is printed before the completion message.
ReportResultFirst(r) ==
  /\ pc[r] = "report" /\ Turn(r)
  /\ Emit(r, <<EvOut(MsgResult, export_result[r]), EvOut(MsgComplete, <<>>)>>)
  /\ Exit(r, "", 0)
  /\ UNCHANGED <<runs, argv, args, weights_path, output_name, export_result, env>>

\* lines 62-63: print("Export complete."); print(export_result)
Report(r) ==
  /\ pc[r] = "report" /\ Turn(r)
  /\ Emit(r, <<EvOut(MsgComplete, <<>>), EvOut(MsgResult, export_result[r])>>)
  /\ Exit(r, "", 0)
  /\ UNCHANGED <<runs, argv, args, weights_path, output_name, export_result, env>>

\* main(): the invocation whose turn it is takes its next step.
Next ==
  \/ \E r \in runs : ParseArgs(r)
  \/ \E r \in runs : ImportLibrary(r)
  \/ \E r \in runs : LoadModel(r)
  \/ \E r \in runs : DetermineOutputName(r)
  \/ \E r \in runs : Export(r)
  \/ \E r \in runs : Report(r)

Start(rs, av) ==
  /\ runs = rs
  /\ argv = av
  /\ pc = [r \in rs |-> "parse_args"]
  /\ args = [r \in rs |-> NoArgs]
  /\ weights_path = [r \in rs |-> <<>>]
  /\ output_name = [r \in rs |-> <<>>]
  /\ export_result = [r \in rs |-> <<>>]
  /\ trace = [r \in rs |-> <<>>]
  /\ raised = [r \in rs |-> ""]
  /\ exit_status = [r \in rs |-> 0]
  /\ env = [lib |-> "unknown", load |-> "unknown", export |-> "unknown", descriptor |-> <<>>]

\* One invocation, any command line.
Init == \E av \in CommandLines : Start({1}, [r \in {1} |-> av])

Spec == Init /\ [][Next]_vars

\* Weights given to both invocations of a pair.
PairWeights == {Omitted, Given(<<"/">>), Given(<<"a", ".", "a">>)}

\* Two invocations whose command lines differ in --output at most.
InitPair ==
  \E w \in PairWeights : \E o1 \in Opt(PathValues) : \E o2 \in Opt(PathValues) :
    LET av == [size |-> Omitted, weights |-> w, imgsz |-> Omitted, half |-> "", nms |-> "",
               output |-> o1]
    IN  Start({1, 2}, [r \in {1, 2} |-> IF r = 1 THEN av ELSE [av EXCEPT !.output = o2]])

SpecPair == InitPair /\ [][Next]_vars

\* ------------------------------------------------------------- properties

\* The events of invocation r of one kind, in order.
Calls(r, kind) == SelectSeq(trace[r], LAMBDA e : e.kind = kind)

Printed(r, msg) == \E i \in 1..Len(trace[r]) : trace[r][i].kind = "stdout" /\ trace[r][i].msg = msg

OnStderr(r, msg) == \E i \in 1..Len(trace[r]) : trace[r][i].kind = "stderr" /\ trace[r][i].msg = msg

\* What the command line says, read without the parser.
WeightsGiven(av) == av.weights.given /\ av.weights.val # <<>>
OutputGiven(av) == av.output.given /\ av.output.val # <<>>
SizeOf(av) == IF av.size.given THEN av.size.val ELSE <<"l">>
ImgszOf(av) ==
  CASE ~av.imgsz.given -> 640
    [] av.imgsz.val = <<"3", "2", "0">> -> 320
    [] av.imgsz.val = <<"0">> -> 0
    [] av.imgsz.val = <<"-", "1">> -> 0 - 1
HalfOf(av) == av.half # "--no-half"
NmsOf(av) == av.nms # "--no-nms"

\* C1: the identifier passed to YOLO(...) is the explicit weights value
\* unchanged when one is given, whatever the size, and "yolo11" + size +
\* ".pt" for the size in {n,s,m,l,x} otherwise.
C1_WeightsResolution ==
  \A r \in runs : \A i \in 1..Len(trace[r]) :
    trace[r][i].kind = "YOLO" =>
      /\ SizeOf(argv[r]) \in {<<"n">>, <<"s">>, <<"m">>, <<"l">>, <<"x">>}
      /\ trace[r][i].str =
           IF WeightsGiven(argv[r]) THEN argv[r].weights.val
           ELSE <<"y", "o", "l", "o", "1", "1">> \o SizeOf(argv[r]) \o <<".", "p", "t">>

\* --size x and no --weights: YOLO("yolo11x.pt") has been called.
C1_Witness ==
  /\ argv[1].size = Given(<<"x">>) /\ ~argv[1].weights.given
  /\ Calls(1, "YOLO") = <<EvLoad(<<"y", "o", "l", "o", "1", "1", "x", ".", "p", "t">>)>>

\* C2: every export call has format="coreml" and nms, imgsz, half as the
\* command line gives them, an omitted option being imgsz=640, half=True,
\* nms=True.
C2_ExportParameters ==
  \A r \in runs : \A i \in 1..Len(trace[r]) :
    trace[r][i].kind = "export" =>
      /\ trace[r][i].opts = [format |-> "coreml", nms |-> NmsOf(argv[r]),
                             imgsz |-> ImgszOf(argv[r]), half |-> HalfOf(argv[r])]
      /\ (~argv[r].imgsz.given /\ argv[r].half = "" /\ argv[r].nms = "")
           => trace[r][i].opts = [format |-> "coreml", nms |-> TRUE, imgsz |-> 640, half |-> TRUE]

\* --no-half --no-nms --imgsz 320 has exported with imgsz=320, half=False, nms=False.
C2_Witness ==
  /\ argv[1].half = "--no-half" /\ argv[1].nms = "--no-nms"
  /\ argv[1].imgsz = Given(<<"3", "2", "0">>)
  /\ Calls(1, "export") =
       <<EvExport([format |-> "coreml", nms |-> FALSE, imgsz |-> 320, half |-> FALSE])>>

\* The import of invocation r has been attempted and the library is missing.
ImportFailed(r) == env.lib = "missing" /\ Calls(r, "import") # <<>>

\* C3: when the import fails, the diagnostic is on the error stream, the
\* failure ends the process with a non-zero status, and neither YOLO(...) nor
\* export(...) is called nor "Export complete." printed.
C3_MissingDependency ==
  \A r \in runs :
    ImportFailed(r) =>
      /\ OnStderr(r, MsgNotInstalled)
      /\ pc[r] = "exited" /\ raised[r] = "ImportError" /\ exit_status[r] # 0
      /\ Calls(r, "YOLO") = <<>> /\ Calls(r, "export") = <<>>
      /\ ~Printed(r, MsgComplete)

C3_Witness == ImportFailed(1) /\ pc[1] = "exited" /\ Calls(1, "stderr") # <<>>

\* The call of that kind has been made by invocation r and raised.
LoadFailed(r) == env.load = "raises" /\ Calls(r, "YOLO") # <<>>
ExportFailed(r) == env.export = "raises" /\ Calls(r, "export") # <<>>

\* C4: when YOLO(...) or export(...) fails, the failing call was made exactly
\* once, the process has ended with a non-zero status, neither "Export
\* complete." nor a descriptor is printed, and after a loader failure export
\* is never called.
C4_LoadExportFailure ==
  \A r \in runs :
    /\ LoadFailed(r) =>
         /\ Len(Calls(r, "YOLO")) = 1 /\ Calls(r, "export") = <<>>
         /\ pc[r] = "exited" /\ raised[r] = "LoadError" /\ exit_status[r] # 0
         /\ ~Printed(r, MsgComplete) /\ ~Printed(r, MsgResult)
    /\ ExportFailed(r) =>
         /\ Len(Calls(r, "export")) = 1 /\ Len(Calls(r, "YOLO")) = 1
         /\ pc[r] = "exited" /\ raised[r] = "ExportError" /\ exit_status[r] # 0
         /\ ~Printed(r, MsgComplete) /\ ~Printed(r, MsgResult)

C4_Witness == ExportFailed(1) /\ pc[1] = "exited" /\ exit_status[1] = 1

\* C9: the imgsz passed to export(...) is strictly greater than 0.
C9_PositiveImgsz ==
  \A r \in runs : \A i \in 1..Len(trace[r]) :
    trace[r][i].kind = "export" => trace[r][i].opts.imgsz > 0

\* The final path component of a text: its last "/"-separated piece that is
\* neither empty nor ".", and "" when there is none.
FinalComponent(s) ==
  LET segs == Split(s)
      keep == {i \in 1..Len(segs) : segs[i] # <<>> /\ segs[i] # <<".">>}
  IN  IF keep = {} THEN <<>> ELSE segs[CHOOSE i \in keep : \A j \in keep : j <= i]

\* A name without its extension: cut at the last dot, unless that dot is the
\* first or the last character.
WithoutExtension(n) ==
  LET dots == {i \in 2..(Len(n) - 1) : n[i] = "." /\ \A j \in (i+1)..Len(n) : n[j] # "."}
  IN  IF dots = {} \/ n[Len(n)] = "." THEN n ELSE SubSeq(n, 1, (CHOOSE i \in dots : TRUE) - 1)

\* The model has been loaded and the naming step of lines 43-52 has run.
PastNaming(r) == Len(Calls(r, "YOLO")) = 1 /\ env.load = "returns" /\ pc[r] # "output_name"

\* The identifier the loader was called with.
LoadedWeights(r) == Calls(r, "YOLO")[1].str

\* The run announced the export under this base name and kept it.
NamedAs(r, base) ==
  /\ raised[r] # "ValueError"
  /\ output_name[r] = base
  /\ Len(Calls(r, "stdout")) >= 2
  /\ Calls(r, "stdout")[2].msg = MsgExporting
  /\ Calls(r, "stdout")[2].str = base \o <<".", "m", "l", "p", "a", "c", "k", "a", "g", "e">>

\* The naming step raised ValueError: the run ended there, before any export.
NamingFailed(r) ==
  /\ pc[r] = "exited" /\ raised[r] = "ValueError" /\ exit_status[r] # 0
  /\ Calls(r, "export") = <<>> /\ ~Printed(r, MsgExporting)

\* C5 as stated: with no --output, for every weights identifier the output
\* base name is derived and equals the identifier's filename component
\* without its extension.
C5_AsStated ==
  \A r \in runs :
    (PastNaming(r) /\ ~OutputGiven(argv[r])) =>
      NamedAs(r, WithoutExtension(FinalComponent(LoadedWeights(r))))

\* C5: with no --output, the output base name is the final path component of
\* the weights identifier without its last extension when that component is
\* not empty; when it is empty (as for "/") the naming step raises
\* ValueError and the run ends before the export.
C5_DefaultOutputName ==
  \A r \in runs :
    (PastNaming(r) /\ ~OutputGiven(argv[r])) =>
      /\ IF FinalComponent(LoadedWeights(r)) = <<>> THEN NamingFailed(r)
         ELSE NamedAs(r, WithoutExtension(FinalComponent(LoadedWeights(r))))
      /\ LoadedWeights(r) = <<"y", "o", "l", "o", "1", "1", "l", ".", "p", "t">>
           => output_name[r] = <<"y", "o", "l", "o", "1", "1", "l">>

\* --weights a.a.a, no --output: the base name is "a.a".
C5_Witness ==
  /\ argv[1].weights = Given(<<"a", ".", "a", ".", "a">>) /\ ~argv[1].output.given
  /\ PastNaming(1) /\ output_name[1] = <<"a", ".", "a">>

\* C6 as stated: for every non-empty --output value v the output base name is
\* derived and equals v without its extension, directory components included.
C6_AsStated ==
  \A r \in runs :
    (PastNaming(r) /\ OutputGiven(argv[r])) =>
      NamedAs(r, WithoutExtension(argv[r].output.val))

\* C6: for a non-empty --output value v, the output base name is the final
\* path component of v without its last extension (directory components are
\* dropped, earlier suffixes kept) when that component is not empty; when it
\* is empty (as for "." or "/") the naming step raises ValueError and the run
\* ends before the export.
C6_ExplicitOutputName ==
  \A r \in runs :
    (PastNaming(r) /\ OutputGiven(argv[r])) =>
      /\ IF FinalComponent(argv[r].output.val) = <<>> THEN NamingFailed(r)
         ELSE NamedAs(r, WithoutExtension(FinalComponent(argv[r].output.val)))
      /\ argv[r].output.val = Str_foo_mlpackage => output_name[r] = <<"f", "o", "o">>

\* --output a/a.a: the base name is "a".
C6_Witness ==
  /\ argv[1].output = Given(<<"a", "/", "a", ".", "a">>)
  /\ PastNaming(1) /\ output_name[1] = <<"a">>

\* The kind and message of each event of invocation r.
Steps(r) == [i \in 1..Len(trace[r]) |-> <<trace[r][i].kind, trace[r][i].msg>>]

\* A successful invocation: import, load, export, "Export complete.", the
\* descriptor that export returned; each once and in this order.
LinearPass(r) ==
  (pc[r] = "exited" /\ raised[r] = "") =>
    /\ exit_status[r] = 0
    /\ Steps(r) = << <<"import", "ultralytics">>, <<"stdout", MsgLoading>>, <<"YOLO", "">>,
                     <<"stdout", MsgExporting>>, <<"export", "">>,
                     <<"stdout", MsgComplete>>, <<"stdout", MsgResult>> >>
    /\ trace[r][3].str = weights_path[r]
    /\ trace[r][7].str = env.descriptor

\* No export call before the load has returned.
ExportAfterLoad(r) ==
  \A k \in 1..Len(trace[r]) :
    trace[r][k].kind = "export" =>
      env.load = "returns" /\ \E i \in 1..(k-1) : trace[r][i].kind = "YOLO"

\* C7 as stated: the linear pass, and, on a command line the parser accepts,
\* no way to end early but the import failure and an uncaught load or export
\* failure.
C7_AsStated ==
  \A r \in runs :
    /\ LinearPass(r)
    /\ ExportAfterLoad(r)
    /\ (pc[r] = "exited" /\ raised[r] # "" /\ ~UsageError(argv[r])) =>
         raised[r] \in {"ImportError", "LoadError", "ExportError"}

\* C7: the linear pass; the ways to end early are a usage error of the
\* argument parser (status 2, before the import), the import failure, an
\* uncaught load failure, a ValueError of the naming step (after the one
\* load, before any export) and an uncaught export failure.
C7_SingleLinearPass ==
  \A r \in runs :
    /\ LinearPass(r)
    /\ ExportAfterLoad(r)
    /\ (pc[r] = "exited" /\ raised[r] # "") =>
         /\ raised[r] \in {"SystemExit", "ImportError", "LoadError", "ValueError", "ExportError"}
         /\ raised[r] = "SystemExit" =>
              exit_status[r] = 2 /\ Calls(r, "import") = <<>> /\ UsageError(argv[r])
         /\ raised[r] = "ImportError" => ImportFailed(r)
         /\ raised[r] = "LoadError" => LoadFailed(r)
         /\ raised[r] = "ValueError" =>
              Len(Calls(r, "YOLO")) = 1 /\ Calls(r, "export") = <<>>
         /\ raised[r] = "ExportError" => ExportFailed(r)

C7_Witness ==
  /\ pc[1] = "exited" /\ raised[1] = "" /\ Len(trace[1]) = 7
  /\ trace[1][7] = EvOut(MsgResult, <<"a", "a">>)

\* Both invocations of the pair have ended.
PairEnded == runs = {1, 2} /\ pc[1] = "exited" /\ pc[2] = "exited"

C10_AsStated ==
  \A r \in runs :
    /\ \A i \in 1..Len(trace[r]) :
         trace[r][i].kind = "YOLO" =>
           \E j \in 1..(i-1) : trace[r][j].kind = "stdout" /\ trace[r][j].msg = MsgExporting
    /\ raised[r] = "ValueError" => Calls(r, "YOLO") = <<>>

\* C10: the output base name is resolved after the load call has returned and
\* before the export call, so a failure of the naming step happens after the
\* load and before any export.
C10_NameAfterLoad ==
  \A r \in runs :
    /\ \A j \in 1..Len(trace[r]) :
         (trace[r][j].kind = "stdout" /\ trace[r][j].msg = MsgExporting) =>
           env.load = "returns" /\ \E i \in 1..(j-1) : trace[r][i].kind = "YOLO"
    /\ \A k \in 1..Len(trace[r]) :
         trace[r][k].kind = "export" =>
           \E j \in 1..(k-1) : trace[r][j].kind = "stdout" /\ trace[r][j].msg = MsgExporting
    /\ raised[r] = "ValueError" =>
         Len(Calls(r, "YOLO")) = 1 /\ env.load = "returns" /\ Calls(r, "export") = <<>>

\* --output "." : the load was made, then the naming step raised.
C10_Witness ==
  /\ argv[1].output = Given(<<".">>)
  /\ raised[1] = "ValueError" /\ Len(Calls(1, "YOLO")) = 1

====
